---------------------------- MODULE Spec2Model ----------------------------
(***************************************************************************)
(* A model of mantaray/textwidget_tags.py: parse_text (mIRC style codes),  *)
(* find_and_tag_urls (URL highlighting in a Tk text widget) and            *)
(* config_tags (tag configuration and tag priorities).                     *)
(*                                                                         *)
(* A text is a sequence of characters, each character a string.  The four  *)
(* style control bytes are written in caret notation: \x02 is "^B", \x1f   *)
(* is "^_", \x03 is "^C" and \x0f is "^O".                                 *)
(***************************************************************************)
EXTENDS Integers, Sequences, FiniteSets, TLC

VARIABLES
    text,          \* parse_text: the argument
    runs,          \* parse_text: the (substring, tags) pairs yielded so far
    raised,        \* parse_text: "" or the name of the exception it raised
    pc,            \* parse_text: "start" before the call, "done" after it
    content,       \* find_and_tag_urls: the characters of the text widget
    start,         \* find_and_tag_urls: the argument start, as a position
    stop,          \* find_and_tag_urls: the argument end, as a position
    search_start,  \* find_and_tag_urls: the local search_start
    url_ranges,    \* find_and_tag_urls: the ranges given to tag_add("url", ...)
    upc,           \* find_and_tag_urls: "loop" inside the while, "done" after
    tag_order,     \* config_tags: the widget's tags, lowest priority first
    tpc            \* config_tags: the number of tag calls made so far

varsParse == <<text, runs, raised, pc>>

varsUrls == <<content, start, stop, search_start, url_ranges, upc>>

varsTags == <<tag_order, tpc>>

vars == <<varsParse, varsUrls, varsTags>>

----------------------------------------------------------------------------
(* Bounds of the model.                                                    *)

MaxTextLen == 4

MaxCodes == 3

MaxPieces == 4

MaxFairPieces == 3

----------------------------------------------------------------------------
(* Characters.                                                             *)

BOLD == "^B"

UNDERLINE == "^_"

COLOR == "^C"

RESET == "^O"

ControlBytes == {BOLD, UNDERLINE, COLOR, RESET}

Digits == {"0", "1", "2", "3", "4", "5", "6", "7", "8", "9"}

DigitVal ==
    ("0" :> 0) @@ ("1" :> 1) @@ ("2" :> 2) @@ ("3" :> 3) @@ ("4" :> 4) @@
    ("5" :> 5) @@ ("6" :> 6) @@ ("7" :> 7) @@ ("8" :> 8) @@ ("9" :> 9)

\* Python's None for fg and bg (every real color index is >= 0).
None == -1

\* The keys of _MIRC_COLORS.
MIRC_COLORS == 0 .. 15

\* int(s) for a non-empty string of decimal digits.
RECURSIVE int(_)
int(s) ==
    IF s = <<>> THEN 0
    ELSE 10 * int(SubSeq(s, 1, Len(s) - 1)) + DigitVal[s[Len(s)]]

\* A variant that pads the index to two digits, as "%02d" would.
ForegroundTag_Padded(fg) ==
    "foreground-" \o (IF fg < 10 THEN "0" ELSE "") \o ToString(fg)

\* "foreground-%d" % fg and "background-%d" % bg: %d writes the number in
\* decimal with no leading zero.
ForegroundTag(fg) == "foreground-" \o ToString(fg)

BackgroundTag(bg) == "background-" \o ToString(bg)

----------------------------------------------------------------------------
(* style_regex and re.split.                                               *)

\* How many of the characters t[i], t[i+1] are digits, counted from t[i]
\* and stopping at the first non-digit: what the greedy [0-9]{1,2} takes.
DigitRun(t, i) ==
    IF i <= Len(t) /\ t[i] \in Digits
    THEN (IF i + 1 <= Len(t) /\ t[i + 1] \in Digits THEN 2 ELSE 1)
    ELSE 0

\* A variant whose color alternative is \x03[0-9]{0,2}(?:,[0-9]{1,2})?, so
\* that a \x03 with no digit behind it is a match too.
StyleMatchLen_BareColor(t, i) ==
    IF t[i] \in {BOLD, UNDERLINE, RESET} THEN 1
    ELSE IF t[i] = COLOR
    THEN LET nf == DigitRun(t, i + 1)
             j  == i + 1 + nf
             nb == IF j <= Len(t) /\ t[j] = "," THEN DigitRun(t, j + 1) ELSE 0
         IN  1 + nf + (IF nb > 0 THEN 1 + nb ELSE 0)
    ELSE 0

\* The length of the match of style_regex that starts at t[i], 0 if none:
\*   \x02 | \x1f | \x03[0-9]{1,2}(?:,[0-9]{1,2})? | \x0f
StyleMatchLen(t, i) ==
    IF t[i] \in {BOLD, UNDERLINE, RESET} THEN 1
    ELSE IF t[i] = COLOR
    THEN LET nf == DigitRun(t, i + 1)
             j  == i + 1 + nf
             nb == IF j <= Len(t) /\ t[j] = "," THEN DigitRun(t, j + 1) ELSE 0
         IN  IF nf = 0 THEN 0
             ELSE 1 + nf + (IF nb > 0 THEN 1 + nb ELSE 0)
    ELSE 0

\* re.split("(" + style_regex + ")", t) from position i on, cur being the
\* text collected since the last match: the texts between the matches and,
\* because of the capturing group, the matches themselves.
RECURSIVE re_split(_, _, _)
re_split(t, i, cur) ==
    IF i > Len(t) THEN <<cur>>
    ELSE LET n == StyleMatchLen(t, i)
         IN  IF n = 0 THEN re_split(t, i + 1, Append(cur, t[i]))
             ELSE <<cur, SubSeq(t, i, i + n - 1)>> \o re_split(t, i + n, <<>>)

\* parts = [""] + re.split(...)
Parts(t) == <<<<>>>> \o re_split(t, 1, <<>>)

\* re.fullmatch(r"\x03([0-9]{1,2})(,[0-9]{1,2})?", style_spec): the set of
\* the ways to match (empty when there is no match), each way the pair of
\* the groups, bg_spec being <<>> for a group that did not take part.
FullMatchColor(style_spec) ==
    { g \in { <<SubSeq(style_spec, 2, 1 + nf),
                SubSeq(style_spec, 2 + nf, Len(style_spec))>> :
                nf \in { n \in 1 .. 2 : 1 + n <= Len(style_spec) } } :
        /\ Len(style_spec) >= 2
        /\ style_spec[1] = COLOR
        /\ Len(g[1]) \in 1 .. 2
        /\ \A k \in 1 .. Len(g[1]) : g[1][k] \in Digits
        /\ \/ g[2] = <<>>
           \/ /\ Len(g[2]) \in 2 .. 3
              /\ g[2][1] = ","
              /\ \A k \in 2 .. Len(g[2]) : g[2][k] \in Digits }

\* bg_spec.lstrip(",")
RECURSIVE lstrip(_, _)
lstrip(s, chars) ==
    IF s # <<>> /\ s[1] \in chars THEN lstrip(Tail(s), chars) ELSE s

----------------------------------------------------------------------------
(* The loop of parse_text.                                                 *)

\* A variant that starts with the underline on.
InitialStyle_Underlined ==
    [fg |-> None, bg |-> None, underline |-> TRUE, raised |-> ""]

\* fg = None; bg = None; underline = False
InitialStyle == [fg |-> None, bg |-> None, underline |-> FALSE, raised |-> ""]

\* A color index that is not a key of _MIRC_COLORS becomes None.
PaletteOrNone(n) == IF n \in MIRC_COLORS THEN n ELSE None

\* A variant that keeps the old foreground when the new index is out of range.
ApplyColor_KeepForeground(st, style_spec) ==
    LET ms == FullMatchColor(style_spec)
    IN  IF ms = {} THEN [st EXCEPT !.raised = "AssertionError"]
        ELSE LET g == CHOOSE m \in ms : TRUE
             IN  [st EXCEPT
                    !.fg = IF int(g[1]) \in MIRC_COLORS THEN int(g[1]) ELSE st.fg,
                    !.bg = IF g[2] # <<>>
                           THEN PaletteOrNone(int(lstrip(g[2], {","})))
                           ELSE st.bg]

\* The color branch: fg is always assigned, bg only with a bg_spec.
ApplyColor(st, style_spec) ==
    LET ms == FullMatchColor(style_spec)
    IN  IF ms = {} THEN [st EXCEPT !.raised = "AssertionError"]
        ELSE LET g == CHOOSE m \in ms : TRUE
             IN  [st EXCEPT
                    !.fg = PaletteOrNone(int(g[1])),
                    !.bg = IF g[2] # <<>>
                           THEN PaletteOrNone(int(lstrip(g[2], {","})))
                           ELSE st.bg]

\* A variant that resets the colors and leaves the underline.
ApplyReset_KeepsUnderline(st) == [st EXCEPT !.fg = None, !.bg = None]

\* \x0f: fg = None; bg = None; underline = False
ApplyReset(st) == [st EXCEPT !.fg = None, !.bg = None, !.underline = FALSE]

\* A variant in which \x1f toggles the underline.
ApplyUnderline_Toggle(st) == [st EXCEPT !.underline = ~st.underline]

\* \x1f: underline = True
ApplyUnderline(st) == [st EXCEPT !.underline = TRUE]

\* The if/elif chain on style_spec.
ApplyStyle(st, style_spec) ==
    IF style_spec = <<>> THEN st
    ELSE IF style_spec = <<BOLD>> THEN st
    ELSE IF style_spec = <<UNDERLINE>> THEN ApplyUnderline(st)
    ELSE IF style_spec[1] = COLOR THEN ApplyColor(st, style_spec)
    ELSE IF style_spec = <<RESET>> THEN ApplyReset(st)
    ELSE [st EXCEPT !.raised = "ValueError"]

\* The tags of a run: foreground, background, underline, in this order.
TagsOf(st) ==
    (IF st.fg # None THEN <<ForegroundTag(st.fg)>> ELSE <<>>)
    \o (IF st.bg # None THEN <<BackgroundTag(st.bg)>> ELSE <<>>)
    \o (IF st.underline THEN <<"underline">> ELSE <<>>)

\* A variant without the "if substring:" test: empty substrings are yielded.
YieldRun_Always(out, st, substring) ==
    Append(out, [text |-> substring, tags |-> TagsOf(st)])

\* if substring: yield (substring, tags)
YieldRun(out, st, substring) ==
    IF substring # <<>>
    THEN Append(out, [text |-> substring, tags |-> TagsOf(st)])
    ELSE out

\* for style_spec, substring in zip(parts[0::2], parts[1::2]), from the
\* k-th pair on.  An exception ends the generator: the runs yielded before
\* it stay yielded.
RECURSIVE ScanParts(_, _, _, _)
ScanParts(parts, k, st, out) ==
    IF 2 * k > Len(parts) THEN [runs |-> out, raised |-> ""]
    ELSE LET st2 == ApplyStyle(st, parts[2 * k - 1])
         IN  IF st2.raised # "" THEN [runs |-> out, raised |-> st2.raised]
             ELSE ScanParts(parts, k + 1, st2, YieldRun(out, st2, parts[2 * k]))

\* parse_text(t), as the list of what it yields and the exception, if any.
parse_text(t) ==
    LET parts == Parts(t)
    IN  IF Len(parts) % 2 # 0 THEN [runs |-> <<>>, raised |-> "AssertionError"]
        ELSE ScanParts(parts, 1, InitialStyle, <<>>)

----------------------------------------------------------------------------
(* The inputs of parse_text.                                               *)

\* The characters of the enumerated texts: the control bytes, the comma, a
\* plain character and digits that write indices inside and outside 0..15.
ParseAlphabet == ControlBytes \cup {",", "a", "1", "5", "9"}

\* Every text over ParseAlphabet of at most MaxTextLen characters.
ShortTexts == UNION { [1 .. n -> ParseAlphabet] : n \in 0 .. MaxTextLen }

\* Complete style codes, for texts of several codes.
ColorNumbers == {<<"4">>, <<"9", "9">>}

BackgroundNumbers == {<<"7">>, <<"1", "6">>}

StyleCodes ==
    {<<BOLD>>, <<UNDERLINE>>, <<RESET>>}
    \cup { <<COLOR>> \o f : f \in ColorNumbers }
    \cup { <<COLOR>> \o f \o <<",">> \o b : f \in ColorNumbers, b \in BackgroundNumbers }

\* A style code followed by one plain character or by nothing.
Segments == { c \o p : c \in StyleCodes, p \in {<<>>, <<"a">>} }

RECURSIVE Flatten(_)
Flatten(ss) == IF ss = <<>> THEN <<>> ELSE Head(ss) \o Flatten(Tail(ss))

\* Every text of at most MaxCodes segments.
StyledTexts ==
    { Flatten(ss) : ss \in UNION { [1 .. n -> Segments] : n \in 0 .. MaxCodes } }

\* The decimal digit d as a character, and n < 100 written as two digits.
DigitChar(d) == CHOOSE c \in Digits : DigitVal[c] = d

TwoDigits(n) == <<DigitChar(n \div 10), DigitChar(n % 10)>>

\* Every text that starts with a color code of two digits, 00 to 99, and goes
\* on with at most MaxTextLen - 2 characters.
ColorTexts ==
    { <<COLOR>> \o TwoDigits(n) \o s :
        n \in 0 .. 99,
        s \in UNION { [1 .. m -> ParseAlphabet] : m \in 0 .. MaxTextLen - 2 } }

----------------------------------------------------------------------------
(* The text widget of find_and_tag_urls.  A position is the number of a    *)
(* character of the widget, counted from 1; the widget's text always ends  *)
(* with a newline, and the position behind it is the index "end".          *)

NL == "\n"

\* The double quote and the backquote, written as words.
DoubleQuote == "dquote"

Backtick == "backquote"

EndIndex(c) == Len(c) + 1

Min(a, b) == IF a <= b THEN a ELSE b

\* What the regular expressions call a word character, among the characters
\* of the model: letters and digits.
WordChars == {"h", "t", "p", "s", "a"} \cup Digits

\* [a-z0-9:] with nocase
UrlFirstChars == WordChars \cup {":"}

\* The position of the newline that ends the line of position p: "p lineend"
\* (the index "end" for a position behind the last newline).
LineEnd(c, p) ==
    LET ends == { q \in p .. Len(c) : c[q] = NL }
    IN  IF ends = {} THEN EndIndex(c) ELSE CHOOSE q \in ends : \A r \in ends : q <= r

\* c has the characters of s from position p on.
HasAt(c, p, s) == p + Len(s) - 1 <= Len(c) /\ SubSeq(c, p, p + Len(s) - 1) = s

\* \m, the start of a word, for a search that began at position from: the
\* character before p is not a word character.  The search hands the
\* regular expression the line from the position where it begins, so there
\* is no character before that position.
WordStartsAt(c, p, from) ==
    \/ p = from
    \/ p = 1
    \/ c[p - 1] \notin WordChars

\* \mhttps?://[a-z0-9:] matches at position p.
UrlPatternAt(c, p, from) ==
    /\ WordStartsAt(c, p, from)
    /\ \/ HasAt(c, p, <<"h", "t", "t", "p", ":", "/", "/">>)
          /\ p + 7 <= Len(c) /\ c[p + 7] \in UrlFirstChars
       \/ HasAt(c, p, <<"h", "t", "t", "p", "s", ":", "/", "/">>)
          /\ p + 8 <= Len(c) /\ c[p + 8] \in UrlFirstChars

\* textwidget.search(pattern, from, to, nocase=True, regexp=True): the set
\* of the positions of the first match that starts in [from, to), empty when
\* there is none (the empty string of Tk).
Search(c, from, to) ==
    LET hits == { p \in from .. Min(to - 1, Len(c)) : UrlPatternAt(c, p, from) }
    IN  IF hits = {} THEN {} ELSE { CHOOSE p \in hits : \A q \in hits : p <= q }

\* textwidget.get(p, q): the characters from p to before q.
Get(c, p, q) == SubSeq(c, p, q - 1)

\* s.split(sep)[0]: s up to the first sep.
SplitFirst(s, sep) ==
    LET seps == { i \in 1 .. Len(s) : s[i] = sep }
    IN  IF seps = {} THEN s
        ELSE SubSeq(s, 1, (CHOOSE i \in seps : \A j \in seps : i <= j) - 1)

\* s.rstrip(chars)
rstrip(s, chars) ==
    LET kept == { i \in 1 .. Len(s) : s[i] \notin chars }
    IN  IF kept = {} THEN <<>>
        ELSE SubSeq(s, 1, CHOOSE i \in kept : \A j \in kept : i >= j)

Punctuation == {".", ",", "?", "!"}

\* The three lines after the comment "URL, and URL. URL? URL! ...": strip
\* the punctuation, then closing parentheses unless the url has an opening
\* one, then the punctuation again.
StripTrailing(url) ==
    CHOOSE u3 \in
        { rstrip(u2, Punctuation) :
            u2 \in { IF "(" \notin { u1[i] : i \in 1 .. Len(u1) }
                     THEN rstrip(u1, {")"}) ELSE u1 :
                u1 \in { rstrip(url, Punctuation) } } } : TRUE

\* The url of a match at match_start: the rest of the line, cut at the
\* first space and the first quote of each kind, its tail stripped.  Each
\* assignment to url is one bound variable, from the innermost outwards.
UrlAt(c, match_start) ==
    CHOOSE url \in
        { StripTrailing(url4) :
            url4 \in { SplitFirst(url3, Backtick) :
                url3 \in { SplitFirst(url2, DoubleQuote) :
                    url2 \in { SplitFirst(url1, "'") :
                        url1 \in { SplitFirst(url0, " ") :
                            url0 \in { Get(c, match_start, LineEnd(c, match_start)) }
                        } } } } } : TRUE

\* match_end = f"{match_start} + {len(url)} chars"
MatchEnd(c, match_start) == Min(match_start + Len(UrlAt(c, match_start)), EndIndex(c))

\* A variant that searches on from the start of the match.
NextSearchStart_NoAdvance(c, match_start, match_end) == match_start

\* search_start = f"{match_end} + 1 char"
NextSearchStart(c, match_start, match_end) == Min(match_end + 1, EndIndex(c))

----------------------------------------------------------------------------
(* The inputs of find_and_tag_urls.                                        *)

\* What the enumerated widget texts are made of: a complete shortest match,
\* a scheme with nothing behind it, and single characters.
UrlPieces ==
    { <<"h", "t", "t", "p", ":", "/", "/", "a">>,
      <<"h", "t", "t", "p", "s", ":", "/", "/">>,
      <<"a">>, <<".">>, <<")">>, <<"(">>, <<" ">>, <<"'">>, <<NL>> }

\* Every text of at most maxPieces pieces, with the newline that ends it.
WidgetTexts(maxPieces) ==
    { Flatten(ps) \o <<NL>> :
        ps \in UNION { [1 .. n -> UrlPieces] : n \in 0 .. maxPieces } }

----------------------------------------------------------------------------
(* The tags of the text widget and the calls of config_tags.               *)

\* The place of a tag in the priority order.
IndexOf(order, tag) == CHOOSE i \in 1 .. Len(order) : order[i] = tag

Without(order, tag) == SelectSeq(order, LAMBDA x : x # tag)

InsertAt(order, i, tag) ==
    SubSeq(order, 1, i - 1) \o <<tag>> \o SubSeq(order, i, Len(order))

\* tag_configure(tag, ...): a tag that does not exist yet is created with
\* the highest priority; the priority of an existing tag stays.
tag_configure(order, tag) ==
    IF \E i \in 1 .. Len(order) : order[i] = tag THEN order
    ELSE Append(order, tag)

\* tag_raise(tag, aboveThis): tag moves to just above aboveThis.
tag_raise(order, tag, aboveThis) ==
    LET rest == Without(order, tag)
    IN  InsertAt(rest, IndexOf(rest, aboveThis) + 1, tag)

\* tag_lower(tag, belowThis): tag moves to just below belowThis.
tag_lower(order, tag, belowThis) ==
    LET rest == Without(order, tag)
    IN  InsertAt(rest, IndexOf(rest, belowThis), tag)

Configure(tag) == [op |-> "configure", tag |-> tag, other |-> ""]

Raise(tag, aboveThis) == [op |-> "raise", tag |-> tag, other |-> aboveThis]

Lower(tag, belowThis) == [op |-> "lower", tag |-> tag, other |-> belowThis]

\* The tag_configure calls before the loops.
NamedTagCalls ==
    << Configure("url"), Configure("underline"), Configure("pinged"),
       Configure("error"), Configure("info"), Configure("history-selection"),
       Configure("channel"), Configure("self-nick"), Configure("other-nick"),
       Configure("received-privmsg"), Configure("sent-privmsg") >>

\* for lower_tag in [...]: tag_lower(lower_tag, "pinged")
LowerCalls ==
    << Lower("info", "pinged"), Lower("error", "pinged"),
       Lower("sent-privmsg", "pinged"), Lower("received-privmsg", "pinged") >>

\* for upper_tag in [...]: tag_raise(upper_tag, "pinged")
UpperCalls ==
    << Raise("history-selection", "pinged"), Raise("channel", "pinged"),
       Raise("self-nick", "pinged"), Raise("other-nick", "pinged") >>

\* A variant of the loop body that raises above received-privmsg first and
\* above sent-privmsg last.
ColorCalls_SentLast(number) ==
    << Configure(ForegroundTag(number)),
       Configure(BackgroundTag(number)),
       Raise(ForegroundTag(number), "received-privmsg"),
       Raise(BackgroundTag(number), "received-privmsg"),
       Raise(ForegroundTag(number), "sent-privmsg"),
       Raise(BackgroundTag(number), "sent-privmsg") >>

\* The body of "for number, hexcolor in _MIRC_COLORS.items()".
ColorCalls(number) ==
    << Configure(ForegroundTag(number)),
       Configure(BackgroundTag(number)),
       Raise(ForegroundTag(number), "sent-privmsg"),
       Raise(BackgroundTag(number), "sent-privmsg"),
       Raise(ForegroundTag(number), "received-privmsg"),
       Raise(BackgroundTag(number), "received-privmsg") >>

\* The calls of the loop over _MIRC_COLORS, from the key number on; a dict
\* is gone through in the order of its keys' insertion, 0 to 15.
RECURSIVE ColorLoopCalls(_)
ColorLoopCalls(number) ==
    IF number \notin MIRC_COLORS THEN <<>>
    ELSE ColorCalls(number) \o ColorLoopCalls(number + 1)

\* Every tag call of config_tags on the text widget, in order.
TagCalls == NamedTagCalls \o LowerCalls \o UpperCalls \o ColorLoopCalls(0)

----------------------------------------------------------------------------
(* The state machines.                                                     *)

IdleParse ==
    /\ text = <<>>
    /\ runs = <<>>
    /\ raised = ""
    /\ pc = "idle"

IdleUrls ==
    /\ content = <<NL>>
    /\ start = 1
    /\ stop = 1
    /\ search_start = 1
    /\ url_ranges = <<>>
    /\ upc = "idle"

IdleTags ==
    /\ tag_order = <<"sel">>
    /\ tpc = 0

\* parse_text: the call.
InitParse ==
    /\ text \in ShortTexts \cup StyledTexts \cup ColorTexts
    /\ runs = <<>>
    /\ raised = ""
    /\ pc = "start"
    /\ IdleUrls
    /\ IdleTags

ParseText ==
    /\ pc = "start"
    /\ LET r == parse_text(text)
       IN  /\ runs' = r.runs
           /\ raised' = r.raised
    /\ pc' = "done"
    /\ UNCHANGED <<text, varsUrls, varsTags>>

NextParse == ParseText

Spec == InitParse /\ [][NextParse]_vars

\* find_and_tag_urls: the state on entering the loop (search_start = start),
\* for the whole widget and for ranges that begin inside the first word or
\* end in the middle of the text.
InitUrls(maxPieces) ==
    /\ content \in WidgetTexts(maxPieces)
    /\ start \in {1, Min(2, EndIndex(content))}
    /\ stop \in {EndIndex(content), Len(content) \div 2 + 1}
    /\ search_start = start
    /\ url_ranges = <<>>
    /\ upc = "loop"
    /\ IdleParse
    /\ IdleTags

\* One turn of the loop with a match: tag the url, search on behind it.
TagUrl ==
    /\ upc = "loop"
    /\ \E match_start \in Search(content, search_start, stop) :
           LET match_end == MatchEnd(content, match_start)
           IN  /\ url_ranges' = Append(url_ranges, <<match_start, match_end>>)
               /\ search_start' = NextSearchStart(content, match_start, match_end)
    /\ UNCHANGED <<content, start, stop, upc, varsParse, varsTags>>

\* The turn of the loop without a match: break.
NoMoreUrls ==
    /\ upc = "loop"
    /\ Search(content, search_start, stop) = {}
    /\ upc' = "done"
    /\ UNCHANGED <<content, start, stop, search_start, url_ranges, varsParse, varsTags>>

NextUrls == TagUrl \/ NoMoreUrls

SpecUrls == InitUrls(MaxPieces) /\ [][NextUrls]_vars

\* The loop runs on while it can.
SpecUrlsFair == InitUrls(MaxFairPieces) /\ [][NextUrls]_vars /\ WF_vars(NextUrls)

\* config_tags on a fresh text widget, whose only tag is the selection's.
InitTags ==
    /\ tag_order = <<"sel">>
    /\ tpc = 0
    /\ IdleParse
    /\ IdleUrls

NextCall == TagCalls[tpc + 1]

TagConfigure ==
    /\ tpc < Len(TagCalls)
    /\ NextCall.op = "configure"
    /\ tag_order' = tag_configure(tag_order, NextCall.tag)
    /\ tpc' = tpc + 1
    /\ UNCHANGED <<varsParse, varsUrls>>

TagLower ==
    /\ tpc < Len(TagCalls)
    /\ NextCall.op = "lower"
    /\ tag_order' = tag_lower(tag_order, NextCall.tag, NextCall.other)
    /\ tpc' = tpc + 1
    /\ UNCHANGED <<varsParse, varsUrls>>

TagRaise ==
    /\ tpc < Len(TagCalls)
    /\ NextCall.op = "raise"
    /\ tag_order' = tag_raise(tag_order, NextCall.tag, NextCall.other)
    /\ tpc' = tpc + 1
    /\ UNCHANGED <<varsParse, varsUrls>>

NextTags == TagConfigure \/ TagLower \/ TagRaise

SpecTags == InitTags /\ [][NextTags]_vars

----------------------------------------------------------------------------
(* What the properties of parse_text are stated with.                      *)

\* The tag names that config_tags configures for the palette, by index + 1.
ForegroundNames ==
    <<"foreground-0", "foreground-1", "foreground-2", "foreground-3",
      "foreground-4", "foreground-5", "foreground-6", "foreground-7",
      "foreground-8", "foreground-9", "foreground-10", "foreground-11",
      "foreground-12", "foreground-13", "foreground-14", "foreground-15">>

BackgroundNames ==
    <<"background-0", "background-1", "background-2", "background-3",
      "background-4", "background-5", "background-6", "background-7",
      "background-8", "background-9", "background-10", "background-11",
      "background-12", "background-13", "background-14", "background-15">>

\* Every string that a foreground tag of a one- or two-digit index could be.
AnyForegroundName == { "foreground-" \o ToString(n) : n \in 0 .. 99 }

Range(s) == { s[i] : i \in 1 .. Len(s) }

\* The k-th (style_spec, substring) pair of the split text.
StyleAt(parts, k) == parts[2 * k - 1]

SubstringAt(parts, k) == parts[2 * k]

NumPairs(parts) == Len(parts) \div 2

\* The index, among the yielded runs, of the run of the k-th pair (whose
\* substring is not empty): empty substrings yield nothing.
RunIndex(parts, k) == Cardinality({ j \in 1 .. k : SubstringAt(parts, j) # <<>> })

IsColorCode(c) == c # <<>> /\ c[1] = COLOR

HasBackgroundPart(c) == "," \in Range(c)

CommaAt(c) == CHOOSE i \in 1 .. Len(c) : c[i] = ","

\* The numbers a color code writes.
ForegroundNumber(c) ==
    int(SubSeq(c, 2, IF HasBackgroundPart(c) THEN CommaAt(c) - 1 ELSE Len(c)))

BackgroundNumber(c) == int(SubSeq(c, CommaAt(c) + 1, Len(c)))

\* t[i] starts text that is plain where the color code before it ends: no
\* control byte, and not a comma with a digit behind it.
PlainFrom(t, i) ==
    /\ i <= Len(t)
    /\ t[i] \notin ControlBytes
    /\ ~(t[i] = "," /\ i + 1 <= Len(t) /\ t[i + 1] \in Digits)

\* C1: for every n in 0..15 written as two digits, a text that starts with
\* \x03<n> and goes on with plain text yields a first run whose tags are
\* exactly ["foreground-<n>"].
C1_TwoDigitForeground ==
    pc = "done" =>
        \A n \in 0 .. 15 :
            (/\ Len(text) >= 4
             /\ SubSeq(text, 1, 3) = <<COLOR>> \o TwoDigits(n)
             /\ PlainFrom(text, 4))
            => /\ raised = ""
               /\ runs # <<>>
               /\ runs[1].text[1] = text[4]
               /\ runs[1].tags = <<ForegroundNames[n + 1]>>

C1_Witness ==
    /\ pc = "done"
    /\ Len(text) >= 4
    /\ SubSeq(text, 1, 3) = <<COLOR>> \o TwoDigits(7)
    /\ PlainFrom(text, 4)
    /\ runs[1].tags = <<"foreground-7">>

\* The runs of the pairs k..j that come before any pair in k+1..j whose
\* style_spec satisfies Stop: the runs that a code at k still governs.
Governed(parts, k, j, Stop(_)) ==
    /\ j \in k .. NumPairs(parts)
    /\ SubstringAt(parts, j) # <<>>
    /\ \A m \in k + 1 .. j : ~Stop(StyleAt(parts, m))

\* C2: a color code whose foreground index is outside 0..15 leaves every
\* following run, up to the next color code, without a foreground tag.
C2_OutOfRangeNoForeground ==
    pc = "done" =>
        LET parts == Parts(text)
        IN  \A k \in 1 .. NumPairs(parts) :
                (/\ IsColorCode(StyleAt(parts, k))
                 /\ ForegroundNumber(StyleAt(parts, k)) \notin 0 .. 15)
                => \A j \in k .. NumPairs(parts) :
                       Governed(parts, k, j, IsColorCode)
                       => /\ RunIndex(parts, j) <= Len(runs)
                          /\ Range(runs[RunIndex(parts, j)].tags)
                                 \cap AnyForegroundName = {}

\* An out-of-range code that follows a run with a valid foreground color.
C2_Witness ==
    /\ pc = "done"
    /\ LET parts == Parts(text)
       IN  \E k \in 2 .. NumPairs(parts) :
               /\ IsColorCode(StyleAt(parts, k))
               /\ ForegroundNumber(StyleAt(parts, k)) = 99
               /\ SubstringAt(parts, k) # <<>>
               /\ SubstringAt(parts, k - 1) # <<>>
               /\ Range(runs[RunIndex(parts, k - 1)].tags) \cap AnyForegroundName # {}
               /\ Range(runs[RunIndex(parts, k)].tags) \cap AnyForegroundName = {}

\* C3: the text run right after a reset code has no tags, whatever codes
\* came before the reset.
C3_ResetClears ==
    pc = "done" =>
        LET parts == Parts(text)
        IN  \A k \in 1 .. NumPairs(parts) :
                (StyleAt(parts, k) = <<RESET>> /\ SubstringAt(parts, k) # <<>>)
                => /\ RunIndex(parts, k) <= Len(runs)
                   /\ runs[RunIndex(parts, k)].tags = <<>>

\* A reset after a run that carried three tags.
C3_Witness ==
    /\ pc = "done"
    /\ LET parts == Parts(text)
       IN  \E k \in 2 .. NumPairs(parts) :
               /\ StyleAt(parts, k) = <<RESET>>
               /\ SubstringAt(parts, k) # <<>>
               /\ SubstringAt(parts, k - 1) # <<>>
               /\ Len(runs[RunIndex(parts, k - 1)].tags) = 3
               /\ runs[RunIndex(parts, k)].tags = <<>>

NoControlBytes(t) == Range(t) \cap ControlBytes = {}

\* C4 as stated: every text without control bytes yields one run, the whole
\* text with no tags.
C4_Original ==
    (pc = "done" /\ NoControlBytes(text))
    => runs = <<[text |-> text, tags |-> <<>>]>>

\* C4, amended: every non-empty text without control bytes yields one run,
\* the whole text with no tags; the empty text yields no run at all.
C4_PlainTextOneRun ==
    (pc = "done" /\ NoControlBytes(text))
    => /\ raised = ""
       /\ runs = IF text = <<>> THEN <<>> ELSE <<[text |-> text, tags |-> <<>>]>>

C4_Witness ==
    /\ pc = "done"
    /\ NoControlBytes(text)
    /\ Len(text) >= 3
    /\ "," \in Range(text)
    /\ Len(runs) = 1

\* C5: parse_text never raises: neither assertion fails and the ValueError
\* branch is never taken.
C5_NeverRaises == raised = ""

\* Malformed sequences in one text: \x03 with three digits behind it, then
\* a \x03 with no digit behind it.
C5_Witness ==
    /\ pc = "done"
    /\ raised = ""
    /\ Len(text) = 5
    /\ text[1] = COLOR
    /\ \A i \in 2 .. 4 : text[i] \in Digits
    /\ text[5] \in {COLOR, ","}
    /\ Len(runs) = 1

IsReset(c) == c = <<RESET>>

IsResetOrBackground(c) == IsReset(c) \/ (IsColorCode(c) /\ HasBackgroundPart(c))

\* C6: after \x1f every run carries the underline tag until the next \x0f,
\* and a background in 0..15 set by \x03<fg>,<bg> stays on every run until
\* the next \x0f or the next color code with a background part.
C6_StyleCarriesForward ==
    pc = "done" =>
        LET parts == Parts(text)
        IN  \A k \in 1 .. NumPairs(parts) :
              \A j \in k .. NumPairs(parts) :
                /\ (StyleAt(parts, k) = <<UNDERLINE>> /\ Governed(parts, k, j, IsReset))
                   => /\ RunIndex(parts, j) <= Len(runs)
                      /\ "underline" \in Range(runs[RunIndex(parts, j)].tags)
                /\ (/\ IsColorCode(StyleAt(parts, k))
                    /\ HasBackgroundPart(StyleAt(parts, k))
                    /\ BackgroundNumber(StyleAt(parts, k)) \in 0 .. 15
                    /\ Governed(parts, k, j, IsResetOrBackground))
                   => /\ RunIndex(parts, j) <= Len(runs)
                      /\ BackgroundNames[BackgroundNumber(StyleAt(parts, k)) + 1]
                             \in Range(runs[RunIndex(parts, j)].tags)

\* A background and an underline that outlive a bold code, a second \x1f
\* or a color code without a background part.
C6_Witness ==
    /\ pc = "done"
    /\ LET parts == Parts(text)
       IN  /\ NumPairs(parts) = 4
           /\ IsColorCode(StyleAt(parts, 2)) /\ HasBackgroundPart(StyleAt(parts, 2))
           /\ StyleAt(parts, 3) = <<UNDERLINE>>
           /\ IsColorCode(StyleAt(parts, 4)) /\ ~HasBackgroundPart(StyleAt(parts, 4))
           /\ SubstringAt(parts, 4) # <<>>
           /\ Len(runs) >= 1
           /\ runs[Len(runs)].tags = <<"background-7", "underline">>

\* The text with every matched style code removed: \x02, \x1f, \x0f, and
\* \x03 with one or two digits and an optional comma with one or two digits.
RECURSIVE WithoutCodes(_)
WithoutCodes(t) ==
    IF t = <<>> THEN <<>>
    ELSE IF Head(t) \in {BOLD, UNDERLINE, RESET} THEN WithoutCodes(Tail(t))
    ELSE IF Head(t) = COLOR /\ Len(t) >= 2 /\ t[2] \in Digits
    THEN LET a == IF Len(t) >= 3 /\ t[3] \in Digits THEN 3 ELSE 2
             b == IF Len(t) >= a + 2 /\ t[a + 1] = "," /\ t[a + 2] \in Digits
                  THEN (IF Len(t) >= a + 3 /\ t[a + 3] \in Digits THEN a + 3 ELSE a + 2)
                  ELSE a
         IN  WithoutCodes(SubSeq(t, b + 1, Len(t)))
    ELSE <<Head(t)>> \o WithoutCodes(Tail(t))

RECURSIVE ConcatTexts(_)
ConcatTexts(rs) ==
    IF rs = <<>> THEN <<>> ELSE Head(rs).text \o ConcatTexts(Tail(rs))

\* C9: every run has a non-empty text, and the texts of the runs, in order,
\* make up the input with every matched style code removed.
C9_RunsPartitionText ==
    pc = "done" =>
        /\ \A i \in 1 .. Len(runs) : runs[i].text # <<>>
        /\ ConcatTexts(runs) = WithoutCodes(text)

\* Three runs around two codes, one of them a color code with a background.
C9_Witness ==
    /\ pc = "done"
    /\ Len(runs) = 3
    /\ \E i \in 1 .. Len(text) - 1 : text[i] = COLOR /\ text[i + 1] \in Digits
    /\ "," \in Range(text)
    /\ Len(ConcatTexts(runs)) < Len(text) - 4

----------------------------------------------------------------------------
(* The properties of find_and_tag_urls.                                    *)

\* The text of the i-th tagged range.
TaggedUrl(i) == Get(content, url_ranges[i][1], url_ranges[i][2])

C10_State ==
    /\ \A i \in 1 .. Len(url_ranges) : url_ranges[i][2] - url_ranges[i][1] >= 8
    /\ \A i \in 1 .. Len(url_ranges) : \A j \in i + 1 .. Len(url_ranges) :
           url_ranges[i][2] <= url_ranges[j][1]
    /\ url_ranges # <<>> => search_start > url_ranges[Len(url_ranges)][2]
    /\ search_start <= EndIndex(content)

\* C10: every turn of the loop tags a url of at least 8 characters and
\* searches on strictly behind it, so search_start grows with every turn,
\* the tagged ranges are disjoint and in increasing order, and the loop
\* ends (every step is a turn that tags a url or the break).
C10_Terminates ==
    /\ []C10_State
    /\ [][/\ upc = "loop"
          /\ (url_ranges' # url_ranges => search_start' > search_start)
          /\ (url_ranges' = url_ranges => upc' = "done")]_vars
    /\ <>(upc = "done")

\* Two urls tagged one after the other, and the loop over.
C10_Witness ==
    /\ upc = "done"
    /\ Len(url_ranges) = 2
    /\ url_ranges[1][2] < url_ranges[2][1]

----------------------------------------------------------------------------
(* The property of config_tags.                                            *)

Priority(tag) == IndexOf(tag_order, tag)

\* C8: when config_tags is through, every foreground-N and background-N tag,
\* N in 0..15, has a higher priority than sent-privmsg and received-privmsg.
C8_ColorsAboveMessages ==
    tpc = Len(TagCalls) =>
        \A n \in 1 .. 16 : \A m \in {"sent-privmsg", "received-privmsg"} :
            /\ Priority(ForegroundNames[n]) > Priority(m)
            /\ Priority(BackgroundNames[n]) > Priority(m)

\* The end of config_tags, the colors between the message tags and pinged.
C8_Witness ==
    /\ tpc = Len(TagCalls)
    /\ Len(tag_order) = 44
    /\ Priority("foreground-0") < Priority("pinged")
    /\ Priority("background-15") = Priority("received-privmsg") + 1

=============================================================================
